---- MODULE Spec2Model ----
(***************************************************************************)
(* Model of the limit order book matching engine of                        *)
(* cpp/order_book_simulator/orderbook.cpp (class OrderBook).               *)
(*                                                                         *)
(* Prices are doubles in the source; here they are integer ticks.          *)
(* Order objects live on the heap behind std::shared_ptr: the model keeps  *)
(* a heap of Order records, and the queues and the order index hold        *)
(* pointers into it.  One Order is allocated per addOrder, so the          *)
(* allocation serial of an Order coincides with the id it is given.        *)
(***************************************************************************)
EXTENDS Integers, Sequences, FiniteSets

\* Bounds of the model.
MaxOrders == 3
MaxPrice == 2
MaxQty == 2

Sides == {"BUY", "SELL"}
OrderTypes == {"LIMIT", "MARKET"}
Prices == 0..MaxPrice
Quantities == 0..MaxQty
OrderIds == 1..MaxOrders

VARIABLES heap, bids, asks, order_map, trade_history, next_order_id,
          total_orders_processed, total_trades, last, ledger, pc, incoming

vars == <<heap, bids, asks, order_map, trade_history, next_order_id,
          total_orders_processed, total_trades, last, ledger, pc, incoming>>

----------------------------------------------------------------------------
\* Containers.

\* std::min on uint64_t
Min(a, b) == IF a < b THEN a ELSE b

MinOf(S) == CHOOSE x \in S : \A y \in S : x <= y
MaxOf(S) == CHOOSE x \in S : \A y \in S : x >= y

\* std::map::erase(key)
Erase(m, k) == [x \in (DOMAIN m) \ {k} |-> m[x]]

\* std::map::operator[] = value
Put(m, k, v) == [x \in (DOMAIN m) \cup {k} |-> IF x = k THEN v ELSE m[x]]

\* std::map::operator[] as a reference: a missing key is created with an
\* empty deque.
Index(m, k) == IF k \in DOMAIN m THEN m ELSE Put(m, k, <<>>)

\* The first key of bids: std::map<double, ...> orders its keys with the
\* default std::less<double>, so begin() is at the smallest key.
bidsBegin(m) == MinOf(DOMAIN m)

\* The first key of asks: std::map<double, ..., std::greater<double>> orders
\* its keys descending, so begin() is at the largest key.
asksBegin(m) == MaxOf(DOMAIN m)

\* Faulty variant of front: the back of the deque.
frontBack(q) == q[Len(q)]

\* std::deque::front
front(q) == Head(q)

\* Faulty variant of pop_front: the back of the deque is taken off.
pop_frontBack(q) == SubSeq(q, 1, Len(q) - 1)

\* std::deque::pop_front
pop_front(q) == Tail(q)

\* Faulty variant of push_back: push at the front.
push_backFront(q, x) == <<x>> \o q

\* std::deque::push_back
push_back(q, x) == Append(q, x)

\* Faulty variant of remove: the oldest order of the queue is taken out
\* instead of the one asked for.
removeOldest(q, p) == Tail(q)

\* orders.erase(std::remove(orders.begin(), orders.end(), order), orders.end())
remove(q, p) == SelectSeq(q, LAMBDA x : x # p)

\* struct Order (the timestamp is never read)
Order(id, s, t, p, q) ==
    [order_id |-> id, side |-> s, type |-> t, price |-> p, quantity |-> q]

\* struct Trade (the timestamp is never read)
Trade(bid, sid, p, q) ==
    [buy_order_id |-> bid, sell_order_id |-> sid, price |-> p, quantity |-> q]

\* The pointers held by the queues of one side.
QueuePtrs(m) == UNION {{m[k][i] : i \in 1..Len(m[k])} : k \in DOMAIN m}

\* shared_ptr ownership: an Order is destroyed once no queue and no index
\* entry holds it (the handler's local pointer is gone when it returns).
release(st) ==
    LET live == QueuePtrs(st.bids) \cup QueuePtrs(st.asks)
                \cup {st.order_map[i] : i \in DOMAIN st.order_map}
    IN [st EXCEPT !.heap = [p \in (DOMAIN st.heap) \cap live |-> st.heap[p]]]

----------------------------------------------------------------------------
\* Matching.  A matching function works on the engine state st (a record of
\* the members of OrderBook plus the heap) and on the
\* pointer o to the incoming Order.

\* Faulty variant of fillAsk: the trade is priced at the incoming order's own price.
fillAskAtOwnPrice(st, o, price) ==
    LET orders == st.asks[price]
        sell_order == front(orders)
        trade_qty == Min(st.heap[o].quantity, st.heap[sell_order].quantity)
        heap1 == [st.heap EXCEPT ![o].quantity = @ - trade_qty,
                                 ![sell_order].quantity = @ - trade_qty]
        filled == heap1[sell_order].quantity = 0
    IN [st EXCEPT
          !.trade_history = Append(@, Trade(st.heap[o].order_id,
                                             st.heap[sell_order].order_id,
                                             st.heap[o].price, trade_qty)),
          !.total_trades = @ + 1,
          !.heap = heap1,
          !.order_map = IF filled THEN Erase(@, heap1[sell_order].order_id) ELSE @,
          !.asks = IF filled THEN [@ EXCEPT ![price] = pop_front(orders)] ELSE @]

\* Faulty variant of fillAsk: a head order that is filled is erased from the
\* index but stays at the front of its queue.
fillAskLeavesHead(st, o, price) ==
    LET orders == st.asks[price]
        sell_order == front(orders)
        trade_qty == Min(st.heap[o].quantity, st.heap[sell_order].quantity)
        heap1 == [st.heap EXCEPT ![o].quantity = @ - trade_qty,
                                 ![sell_order].quantity = @ - trade_qty]
        filled == heap1[sell_order].quantity = 0
    IN [st EXCEPT
          !.trade_history = Append(@, Trade(st.heap[o].order_id,
                                             st.heap[sell_order].order_id,
                                             price, trade_qty)),
          !.total_trades = @ + 1,
          !.heap = heap1,
          !.order_map = IF filled THEN Erase(@, heap1[sell_order].order_id) ELSE @]

\* One iteration of the inner loop of matchMarketBuy / matchLimitBuy: the
\* incoming buy o trades with the front order of the ask level `price`.
fillAsk(st, o, price) ==
    LET orders == st.asks[price]
        sell_order == front(orders)
        trade_qty == Min(st.heap[o].quantity, st.heap[sell_order].quantity)
        heap1 == [st.heap EXCEPT ![o].quantity = @ - trade_qty,
                                 ![sell_order].quantity = @ - trade_qty]
        filled == heap1[sell_order].quantity = 0
    IN [st EXCEPT
          !.trade_history = Append(@, Trade(st.heap[o].order_id,
                                             st.heap[sell_order].order_id,
                                             price, trade_qty)),
          !.total_trades = @ + 1,
          !.heap = heap1,
          !.order_map = IF filled THEN Erase(@, heap1[sell_order].order_id) ELSE @,
          !.asks = IF filled THEN [@ EXCEPT ![price] = pop_front(orders)] ELSE @]

\* Faulty variant of fillBid: the incoming order's quantity is not reduced.
fillBidKeepsIncoming(st, o, price) ==
    LET orders == st.bids[price]
        buy_order == front(orders)
        trade_qty == Min(st.heap[o].quantity, st.heap[buy_order].quantity)
        heap1 == [st.heap EXCEPT ![buy_order].quantity = @ - trade_qty]
        filled == heap1[buy_order].quantity = 0
    IN [st EXCEPT
          !.trade_history = Append(@, Trade(st.heap[buy_order].order_id,
                                             st.heap[o].order_id,
                                             price, trade_qty)),
          !.total_trades = @ + 1,
          !.heap = heap1,
          !.order_map = IF filled THEN Erase(@, heap1[buy_order].order_id) ELSE @,
          !.bids = IF filled THEN [@ EXCEPT ![price] = pop_front(orders)] ELSE @]

\* Faulty variant of fillBid: the trade names the two orders the wrong way
\* round.
fillBidSwapsIds(st, o, price) ==
    LET orders == st.bids[price]
        buy_order == front(orders)
        trade_qty == Min(st.heap[o].quantity, st.heap[buy_order].quantity)
        heap1 == [st.heap EXCEPT ![o].quantity = @ - trade_qty,
                                 ![buy_order].quantity = @ - trade_qty]
        filled == heap1[buy_order].quantity = 0
    IN [st EXCEPT
          !.trade_history = Append(@, Trade(st.heap[o].order_id,
                                             st.heap[buy_order].order_id,
                                             price, trade_qty)),
          !.total_trades = @ + 1,
          !.heap = heap1,
          !.order_map = IF filled THEN Erase(@, heap1[buy_order].order_id) ELSE @,
          !.bids = IF filled THEN [@ EXCEPT ![price] = pop_front(orders)] ELSE @]

\* One iteration of the inner loop of matchMarketSell / matchLimitSell: the
\* incoming sell o trades with the front order of the bid level `price`.
fillBid(st, o, price) ==
    LET orders == st.bids[price]
        buy_order == front(orders)
        trade_qty == Min(st.heap[o].quantity, st.heap[buy_order].quantity)
        heap1 == [st.heap EXCEPT ![o].quantity = @ - trade_qty,
                                 ![buy_order].quantity = @ - trade_qty]
        filled == heap1[buy_order].quantity = 0
    IN [st EXCEPT
          !.trade_history = Append(@, Trade(st.heap[buy_order].order_id,
                                             st.heap[o].order_id,
                                             price, trade_qty)),
          !.total_trades = @ + 1,
          !.heap = heap1,
          !.order_map = IF filled THEN Erase(@, heap1[buy_order].order_id) ELSE @,
          !.bids = IF filled THEN [@ EXCEPT ![price] = pop_front(orders)] ELSE @]

\* while (!orders.empty() && order->quantity > 0) over the ask level `price`
RECURSIVE sweepAsk(_, _, _)
sweepAsk(st, o, price) ==
    IF st.asks[price] # <<>> /\ st.heap[o].quantity > 0
    THEN sweepAsk(fillAsk(st, o, price), o, price)
    ELSE st

\* while (!orders.empty() && order->quantity > 0) over the bid level `price`
RECURSIVE sweepBid(_, _, _)
sweepBid(st, o, price) ==
    IF st.bids[price] # <<>> /\ st.heap[o].quantity > 0
    THEN sweepBid(fillBid(st, o, price), o, price)
    ELSE st

\* Faulty variant of dropAskBegin: an emptied level is left in the map.
dropAskBeginNever(st) == st

\* if (orders.empty()) asks.erase(asks.begin());
dropAskBegin(st) ==
    IF st.asks[asksBegin(st.asks)] = <<>>
    THEN [st EXCEPT !.asks = Erase(@, asksBegin(st.asks))]
    ELSE st

\* if (orders.empty()) bids.erase(bids.begin());
dropBidBegin(st) ==
    IF st.bids[bidsBegin(st.bids)] = <<>>
    THEN [st EXCEPT !.bids = Erase(@, bidsBegin(st.bids))]
    ELSE st

RECURSIVE matchMarketBuy(_, _)
matchMarketBuy(st, o) ==
    IF DOMAIN st.asks # {} /\ st.heap[o].quantity > 0
    THEN LET price == asksBegin(st.asks)
         IN matchMarketBuy(dropAskBegin(sweepAsk(st, o, price)), o)
    ELSE st

RECURSIVE matchMarketSell(_, _)
matchMarketSell(st, o) ==
    IF DOMAIN st.bids # {} /\ st.heap[o].quantity > 0
    THEN LET price == bidsBegin(st.bids)
         IN matchMarketSell(dropBidBegin(sweepBid(st, o, price)), o)
    ELSE st

\* Faulty variant of limitBuyStops: the comparison inverted.
limitBuyStopsInverted(price, best_ask) == price > best_ask

\* if (order->price < best_ask) break;
limitBuyStops(price, best_ask) == price < best_ask

\* Faulty variant of limitSellStops: the price gate never stops the sell.
limitSellStopsNever(price, best_bid) == FALSE

\* if (order->price > best_bid) break;
limitSellStops(price, best_bid) == price > best_bid

\* The matching loop of matchLimitBuy.
RECURSIVE limitBuyLoop(_, _)
limitBuyLoop(st, o) ==
    IF DOMAIN st.asks # {} /\ st.heap[o].quantity > 0
    THEN LET best_ask == asksBegin(st.asks)
         IN IF limitBuyStops(st.heap[o].price, best_ask)
            THEN st
            ELSE limitBuyLoop(dropAskBegin(sweepAsk(st, o, best_ask)), o)
    ELSE st

\* The matching loop of matchLimitSell.
RECURSIVE limitSellLoop(_, _)
limitSellLoop(st, o) ==
    IF DOMAIN st.bids # {} /\ st.heap[o].quantity > 0
    THEN LET best_bid == bidsBegin(st.bids)
         IN IF limitSellStops(st.heap[o].price, best_bid)
            THEN st
            ELSE limitSellLoop(dropBidBegin(sweepBid(st, o, best_bid)), o)
    ELSE st

\* Faulty variant of restBid: the order is put in the book whatever is left
\* of it.
restBidAlways(st, o) ==
    LET p == st.heap[o].price
        m == Index(st.bids, p)
    IN [st EXCEPT !.bids = Put(m, p, push_back(m[p], o)),
                  !.order_map = Put(@, st.heap[o].order_id, o)]

\* Add remaining quantity to bid book
restBid(st, o) ==
    IF st.heap[o].quantity > 0
    THEN LET p == st.heap[o].price
             m == Index(st.bids, p)
         IN [st EXCEPT !.bids = Put(m, p, push_back(m[p], o)),
                       !.order_map = Put(@, st.heap[o].order_id, o)]
    ELSE st

\* Faulty variant of restAsk: the order joins its queue but gets no entry in
\* the order map.
restAskUnindexed(st, o) ==
    IF st.heap[o].quantity > 0
    THEN LET p == st.heap[o].price
             m == Index(st.asks, p)
         IN [st EXCEPT !.asks = Put(m, p, push_back(m[p], o))]
    ELSE st

\* Add remaining quantity to ask book
restAsk(st, o) ==
    IF st.heap[o].quantity > 0
    THEN LET p == st.heap[o].price
             m == Index(st.asks, p)
         IN [st EXCEPT !.asks = Put(m, p, push_back(m[p], o)),
                       !.order_map = Put(@, st.heap[o].order_id, o)]
    ELSE st

matchLimitBuy(st, o) == restBid(limitBuyLoop(st, o), o)

matchLimitSell(st, o) == restAsk(limitSellLoop(st, o), o)

----------------------------------------------------------------------------
\* The public operations, on the engine state st.

\* Faulty variant of dispatch: the order type is not looked at, every order takes
\* the limit path.
dispatchAllLimit(st, o, side, type) ==
    IF side = "BUY" THEN matchLimitBuy(st, o) ELSE matchLimitSell(st, o)

\* The branch of addOrder on type and side.
dispatch(st, o, side, type) ==
    IF type = "MARKET"
    THEN IF side = "BUY" THEN matchMarketBuy(st, o) ELSE matchMarketSell(st, o)
    ELSE IF side = "BUY" THEN matchLimitBuy(st, o) ELSE matchLimitSell(st, o)

\* Faulty variant of addOrder: the id counter is read but not advanced.
addOrderSameId(st, side, type, price, quantity) ==
    LET o == st.next_order_id
        st1 == [st EXCEPT
                  !.heap = Put(@, o, Order(st.next_order_id, side, type, price, quantity)),
                  !.total_orders_processed = @ + 1]
        st2 == dispatch(st1, o, side, type)
    IN [st |-> release(st2), ret |-> st2.heap[o].order_id]

\* uint64_t addOrder(Side side, OrderType type, double price, uint64_t quantity)
addOrder(st, side, type, price, quantity) ==
    LET o == st.next_order_id
        st1 == [st EXCEPT
                  !.heap = Put(@, o, Order(st.next_order_id, side, type, price, quantity)),
                  !.next_order_id = @ + 1,
                  !.total_orders_processed = @ + 1]
        st2 == dispatch(st1, o, side, type)
    IN [st |-> release(st2), ret |-> st2.heap[o].order_id]

\* Faulty variant of cancelOrder: the index entry is left behind.
cancelOrderKeepsIndex(st, order_id) ==
    IF order_id \notin DOMAIN st.order_map
    THEN [st |-> st, ret |-> FALSE]
    ELSE LET order == st.order_map[order_id]
             price == st.heap[order].price
             st1 == IF st.heap[order].side = "BUY"
                    THEN LET m == Index(st.bids, price)
                             orders == remove(m[price], order)
                         IN [st EXCEPT !.bids = IF orders = <<>>
                                                THEN Erase(m, price)
                                                ELSE Put(m, price, orders)]
                    ELSE LET m == Index(st.asks, price)
                             orders == remove(m[price], order)
                         IN [st EXCEPT !.asks = IF orders = <<>>
                                                THEN Erase(m, price)
                                                ELSE Put(m, price, orders)]
         IN [st |-> release(st1), ret |-> TRUE]

\* Faulty variant of cancelOrder: the level of an unknown id is looked up
\* before the index is, which creates an empty level.
cancelOrderTouchesLevel(st, order_id) ==
    IF order_id \notin DOMAIN st.order_map
    THEN [st |-> [st EXCEPT !.bids = Index(@, 0)], ret |-> FALSE]
    ELSE LET order == st.order_map[order_id]
             price == st.heap[order].price
             st1 == IF st.heap[order].side = "BUY"
                    THEN LET m == Index(st.bids, price)
                             orders == remove(m[price], order)
                         IN [st EXCEPT !.bids = IF orders = <<>>
                                                THEN Erase(m, price)
                                                ELSE Put(m, price, orders)]
                    ELSE LET m == Index(st.asks, price)
                             orders == remove(m[price], order)
                         IN [st EXCEPT !.asks = IF orders = <<>>
                                                THEN Erase(m, price)
                                                ELSE Put(m, price, orders)]
             st2 == [st1 EXCEPT !.order_map = Erase(@, order_id)]
         IN [st |-> release(st2), ret |-> TRUE]

\* bool cancelOrder(uint64_t order_id)
cancelOrder(st, order_id) ==
    IF order_id \notin DOMAIN st.order_map
    THEN [st |-> st, ret |-> FALSE]
    ELSE LET order == st.order_map[order_id]
             price == st.heap[order].price
             st1 == IF st.heap[order].side = "BUY"
                    THEN LET m == Index(st.bids, price)
                             orders == remove(m[price], order)
                         IN [st EXCEPT !.bids = IF orders = <<>>
                                                THEN Erase(m, price)
                                                ELSE Put(m, price, orders)]
                    ELSE LET m == Index(st.asks, price)
                             orders == remove(m[price], order)
                         IN [st EXCEPT !.asks = IF orders = <<>>
                                                THEN Erase(m, price)
                                                ELSE Put(m, price, orders)]
             st2 == [st1 EXCEPT !.order_map = Erase(@, order_id)]
         IN [st |-> release(st2), ret |-> TRUE]

\* double getBestBid() const
getBestBid(st) == IF DOMAIN st.bids = {} THEN 0 ELSE bidsBegin(st.bids)

\* double getBestAsk() const
getBestAsk(st) == IF DOMAIN st.asks = {} THEN 0 ELSE asksBegin(st.asks)

\* double getMidPrice() const.  The division by 2.0 is kept as a fraction:
\* the result is num / den.
getMidPrice(st) ==
    IF DOMAIN st.bids = {} \/ DOMAIN st.asks = {}
    THEN [num |-> 0, den |-> 1]
    ELSE [num |-> getBestBid(st) + getBestAsk(st), den |-> 2]

\* double getSpread() const
getSpread(st) ==
    IF DOMAIN st.bids = {} \/ DOMAIN st.asks = {}
    THEN 0
    ELSE getBestAsk(st) - getBestBid(st)

\* The keys of the bid map in its iteration order, begin() first.
RECURSIVE bidsOrder(_)
bidsOrder(m) ==
    IF DOMAIN m = {} THEN <<>>
    ELSE <<bidsBegin(m)>> \o bidsOrder(Erase(m, bidsBegin(m)))

\* The keys of the ask map in its iteration order, begin() first.
RECURSIVE asksOrder(_)
asksOrder(m) ==
    IF DOMAIN m = {} THEN <<>>
    ELSE <<asksBegin(m)>> \o asksOrder(Erase(m, asksBegin(m)))

\* Reverse iteration: rbegin() first.
reverse(s) == [i \in 1..Len(s) |-> s[Len(s) + 1 - i]]

\* total_qty += order->quantity over the orders of one level
RECURSIVE total_qty(_, _)
total_qty(st, orders) ==
    IF orders = <<>> THEN 0
    ELSE st.heap[Head(orders)].quantity + total_qty(st, Tail(orders))

\* One printed line of a level: price, quantity, orders.
levelLine(st, m, price) ==
    [price |-> price, quantity |-> total_qty(st, m[price]),
     orders |-> Len(m[price])]

\* The first `depth` keys of an iteration (the loops stop at count = depth).
firstKeys(keys, depth) ==
    IF depth <= 0 THEN <<>> ELSE SubSeq(keys, 1, Min(depth, Len(keys)))

\* The default argument of printOrderBook.
DefaultDepth == 5

\* void printOrderBook(int depth = 5) const: the lines of the ask table and of
\* the bid table, top to bottom.  The asks are walked from rbegin(), the bids
\* from begin().
printOrderBook(st, depth) ==
    LET askKeys == firstKeys(reverse(asksOrder(st.asks)), depth)
        bidKeys == firstKeys(bidsOrder(st.bids), depth)
    IN [asks |-> [i \in 1..Len(askKeys) |-> levelLine(st, st.asks, askKeys[i])],
        bids |-> [i \in 1..Len(bidKeys) |-> levelLine(st, st.bids, bidKeys[i])]]

----------------------------------------------------------------------------
\* The state machine: one action per command.

\* The members of the OrderBook object (and the heap they point into).
Engine ==
    [heap |-> heap, bids |-> bids, asks |-> asks, order_map |-> order_map,
     trade_history |-> trade_history, next_order_id |-> next_order_id,
     total_orders_processed |-> total_orders_processed,
     total_trades |-> total_trades]

Install(st) ==
    /\ heap' = st.heap
    /\ bids' = st.bids
    /\ asks' = st.asks
    /\ order_map' = st.order_map
    /\ trade_history' = st.trade_history
    /\ next_order_id' = st.next_order_id
    /\ total_orders_processed' = st.total_orders_processed
    /\ total_trades' = st.total_trades

\* The record of a command, kept in `last` from the moment the command has
\* run until it has returned: its arguments, the state it started from and
\* what it returned.  It is an observation of the run, not a member of
\* OrderBook; no operation reads it.
Command(op, side, type, price, quantity, id, ret) ==
    [op |-> op, side |-> side, type |-> type, price |-> price,
     quantity |-> quantity, id |-> id, ret |-> ret, pre |-> Engine]

\* No command is under observation.
NoCommand ==
    [op |-> "none", side |-> "BUY", type |-> "LIMIT", price |-> 0,
     quantity |-> 0, id |-> 0, ret |-> FALSE,
     pre |-> [heap |-> <<>>, bids |-> <<>>, asks |-> <<>>,
              order_map |-> <<>>, trade_history |-> <<>>,
              next_order_id |-> 1, total_orders_processed |-> 0,
              total_trades |-> 0]]

Init ==
    /\ heap = <<>>
    /\ bids = <<>>
    /\ asks = <<>>
    /\ order_map = <<>>
    /\ trade_history = <<>>
    /\ next_order_id = 1
    /\ total_orders_processed = 0
    /\ total_trades = 0
    /\ last = NoCommand
    /\ ledger = <<>>
    /\ pc = "idle"
    /\ incoming = 0

AddOrder(side, type, price, quantity) ==
    /\ last.op = "none"
    /\ next_order_id <= MaxOrders
    /\ LET r == addOrder(Engine, side, type, price, quantity)
       IN /\ Install(r.st)
          /\ last' = Command("add", side, type, price, quantity, r.ret, TRUE)
          /\ UNCHANGED <<ledger, pc, incoming>>

CancelOrder(order_id) ==
    LET r == cancelOrder(Engine, order_id)
    IN /\ last.op = "none"
       /\ Install(r.st)
       /\ last' = Command("cancel", "BUY", "LIMIT", 0, 0, order_id, r.ret)
       /\ UNCHANGED <<ledger, pc, incoming>>

\* The command has returned to its caller: the book stays as the command
\* left it and the next command may be given.
Return ==
    /\ last.op # "none"
    /\ last' = NoCommand
    /\ UNCHANGED <<heap, bids, asks, order_map, trade_history, next_order_id,
                   total_orders_processed, total_trades, ledger, pc,
                   incoming>>

Next ==
    \/ \E side \in Sides, type \in OrderTypes, price \in Prices, quantity \in Quantities :
          AddOrder(side, type, price, quantity)
    \/ \E order_id \in OrderIds : CancelOrder(order_id)
    \/ Return

Spec == Init /\ [][Next]_vars

\* The same machine driven only with the orders the specification accepts:
\* a positive quantity, and a positive price on a limit order.
NextValid ==
    \/ \E side \in Sides, type \in OrderTypes, price \in Prices, quantity \in Quantities :
          /\ quantity > 0
          /\ type = "LIMIT" => price > 0
          /\ AddOrder(side, type, price, quantity)
    \/ \E order_id \in OrderIds : CancelOrder(order_id)
    \/ Return

SpecValid == Init /\ [][NextValid]_vars

\* The same machine with a ledger of the orders it has accepted: for each id
\* the type and quantity the order was submitted with and the remaining
\* quantity it was cancelled with (0 while it has not been cancelled).  The
\* ledger is an account of the run, not a member of OrderBook; no operation
\* reads it.  Commands are not observed in `last` here.
AddOrderLedger(side, type, price, quantity) ==
    /\ next_order_id <= MaxOrders
    /\ LET r == addOrder(Engine, side, type, price, quantity)
       IN /\ Install(r.st)
          /\ ledger' = Put(ledger, r.ret, [type |-> type, quantity |-> quantity,
                                           cancelled |-> 0])
    /\ UNCHANGED <<last, pc, incoming>>

CancelOrderLedger(order_id) ==
    LET r == cancelOrder(Engine, order_id)
    IN /\ Install(r.st)
       /\ ledger' = IF r.ret
                    THEN [ledger EXCEPT ![order_id].cancelled =
                             heap[order_map[order_id]].quantity]
                    ELSE ledger
       /\ UNCHANGED <<last, pc, incoming>>

NextLedger ==
    \/ \E side \in Sides, type \in OrderTypes, price \in Prices, quantity \in Quantities :
          AddOrderLedger(side, type, price, quantity)
    \/ \E order_id \in OrderIds : CancelOrderLedger(order_id)

SpecLedger == Init /\ [][NextLedger]_vars

----------------------------------------------------------------------------
\* The same commands taken one step of addOrder at a time.  pc is the place
\* addOrder has reached: "idle" when no addOrder runs, "outer" at the test of
\* the outer while loop of its matching function, "inner" at the test of the
\* inner while loop.  incoming is the local pointer `order` of the running
\* addOrder (0 when none runs).  The handler runs on the caller's thread, so
\* once begun it keeps taking steps.

\* The condition of the outer loop and, for a limit order, the price gate:
\* the inner loop is entered.
outerEnters(st, o) ==
    IF st.heap[o].side = "BUY"
    THEN /\ DOMAIN st.asks # {}
         /\ st.heap[o].quantity > 0
         /\ st.heap[o].type = "LIMIT" =>
               ~limitBuyStops(st.heap[o].price, asksBegin(st.asks))
    ELSE /\ DOMAIN st.bids # {}
         /\ st.heap[o].quantity > 0
         /\ st.heap[o].type = "LIMIT" =>
               ~limitSellStops(st.heap[o].price, bidsBegin(st.bids))

\* The condition of the inner loop: !orders.empty() && order->quantity > 0
innerEnters(st, o) ==
    /\ st.heap[o].quantity > 0
    /\ IF st.heap[o].side = "BUY"
       THEN st.asks[asksBegin(st.asks)] # <<>>
       ELSE st.bids[bidsBegin(st.bids)] # <<>>

\* What is done once the outer loop is left: a limit order rests what is
\* left of it, and the local pointer goes away.
leave(st, o) ==
    release(IF st.heap[o].type = "MARKET" THEN st
            ELSE IF st.heap[o].side = "BUY" THEN restBid(st, o)
            ELSE restAsk(st, o))

\* addOrder is called: the Order object is made and counted.
SubmitStep(side, type, price, quantity) ==
    /\ pc = "idle"
    /\ next_order_id <= MaxOrders
    /\ heap' = Put(heap, next_order_id,
                   Order(next_order_id, side, type, price, quantity))
    /\ next_order_id' = next_order_id + 1
    /\ total_orders_processed' = total_orders_processed + 1
    /\ incoming' = next_order_id
    /\ pc' = "outer"
    /\ last' = Command("add", side, type, price, quantity, next_order_id, TRUE)
    /\ UNCHANGED <<bids, asks, order_map, trade_history, total_trades, ledger>>

\* The test of the outer loop (and the gate) lets the inner loop begin.
OuterStep ==
    /\ pc = "outer"
    /\ outerEnters(Engine, incoming)
    /\ pc' = "inner"
    /\ UNCHANGED <<heap, bids, asks, order_map, trade_history, next_order_id,
                   total_orders_processed, total_trades, last, ledger,
                   incoming>>

\* One iteration of the inner loop: a fill against the front order of the
\* level at begin().
FillStep ==
    /\ pc = "inner"
    /\ innerEnters(Engine, incoming)
    /\ Install(IF heap[incoming].side = "BUY"
               THEN fillAsk(Engine, incoming, asksBegin(asks))
               ELSE fillBid(Engine, incoming, bidsBegin(bids)))
    /\ UNCHANGED <<last, ledger, pc, incoming>>

\* The inner loop is left: the level is erased if it is empty, and the outer
\* loop is tested again.
LevelStep ==
    /\ pc = "inner"
    /\ ~innerEnters(Engine, incoming)
    /\ Install(IF heap[incoming].side = "BUY"
               THEN dropAskBegin(Engine)
               ELSE dropBidBegin(Engine))
    /\ pc' = "outer"
    /\ UNCHANGED <<last, ledger, incoming>>

\* The outer loop is left: what is left of a limit order rests, and addOrder
\* returns.
FinishStep ==
    /\ pc = "outer"
    /\ ~outerEnters(Engine, incoming)
    /\ Install(leave(Engine, incoming))
    /\ pc' = "idle"
    /\ incoming' = 0
    /\ last' = NoCommand
    /\ UNCHANGED ledger

\* cancelOrder, between two addOrder calls.
CancelStep(order_id) ==
    /\ pc = "idle"
    /\ Install(cancelOrder(Engine, order_id).st)
    /\ UNCHANGED <<last, ledger, pc, incoming>>

\* The steps of a running addOrder.
RunStep == OuterStep \/ FillStep \/ LevelStep \/ FinishStep

NextSteps ==
    \/ \E side \in Sides, type \in OrderTypes, price \in Prices, quantity \in Quantities :
          SubmitStep(side, type, price, quantity)
    \/ OuterStep
    \/ FillStep
    \/ LevelStep
    \/ FinishStep
    \/ \E order_id \in OrderIds : CancelStep(order_id)

SpecSteps == Init /\ [][NextSteps]_vars /\ WF_vars(RunStep)

\* A running addOrder, when it returns, has left the members of OrderBook as
\* the function addOrder gives them from the state it was called in.
StepsAgree ==
    [][FinishStep =>
          LET r == addOrder(last.pre, last.side, last.type, last.price,
                            last.quantity)
          IN /\ r.ret = last.id
             /\ r.st.heap = heap'
             /\ r.st.bids = bids'
             /\ r.st.asks = asks'
             /\ r.st.order_map = order_map'
             /\ r.st.trade_history = trade_history'
             /\ r.st.next_order_id = next_order_id'
             /\ r.st.total_orders_processed = total_orders_processed'
             /\ r.st.total_trades = total_trades']_vars

----------------------------------------------------------------------------
\* Vocabulary of the properties.  The resting orders of a side are read off
\* the Order objects in its queues, not off the keys of the map.

Side(st, side) == IF side = "BUY" THEN st.bids ELSE st.asks
Opposite(side) == IF side = "BUY" THEN "SELL" ELSE "BUY"

\* The prices of the orders resting on a side.
RestingPrices(st, side) == {st.heap[p].price : p \in QueuePtrs(Side(st, side))}

\* The ids of the orders resting on a side.
RestingIds(st, side) == {st.heap[p].order_id : p \in QueuePtrs(Side(st, side))}

HighestBid(st) == MaxOf(RestingPrices(st, "BUY"))
LowestAsk(st) == MinOf(RestingPrices(st, "SELL"))

\* The best price of a side: highest for buys, lowest for sells.
BestPrice(st, side) == IF side = "BUY" THEN HighestBid(st) ELSE LowestAsk(st)

\* Price a is strictly better than b for an order resting on `side`.
Better(side, a, b) == IF side = "BUY" THEN a > b ELSE a < b

\* The positions in the trade log of the trades of the last command.
NewTrades == (Len(last.pre.trade_history) + 1)..Len(trade_history)

\* The resting order a trade of the last addOrder was made against.
PassiveId(t) == IF last.side = "BUY" THEN t.sell_order_id ELSE t.buy_order_id

\* The incoming order a trade names.
AggressorId(t) == IF last.side = "BUY" THEN t.buy_order_id ELSE t.sell_order_id

\* The quantity traded by order `id` in positions from..to of the trade log.
RECURSIVE TradedQty(_, _, _, _)
TradedQty(log, from, to, id) ==
    IF from > to THEN 0
    ELSE (IF id \in {log[to].buy_order_id, log[to].sell_order_id}
          THEN log[to].quantity ELSE 0)
         + TradedQty(log, from, to - 1, id)

\* Before the trade at position k, the last command had filled the order
\* behind pointer p of its starting state completely.
FilledBefore(p, k) ==
    TradedQty(trade_history, Len(last.pre.trade_history) + 1, k - 1,
              last.pre.heap[p].order_id) = last.pre.heap[p].quantity

\* The remaining quantity with which order `id` rests on `side` at `price`.
RestingQty(st, side, price, id) ==
    IF price \in DOMAIN Side(st, side)
    THEN LET q == Side(st, side)[price]
             at == {i \in 1..Len(q) : st.heap[q[i]].order_id = id}
         IN IF at = {} THEN 0 ELSE st.heap[q[CHOOSE i \in at : TRUE]].quantity
    ELSE 0

AllRestingIds(st) == RestingIds(st, "BUY") \cup RestingIds(st, "SELL")

\* The last command was an addOrder of a limit order that does not cross:
\* the opposite side was empty or its best price was strictly out of reach.
LastDidNotCross ==
    /\ last.op = "add"
    /\ last.type = "LIMIT"
    /\ \/ QueuePtrs(Side(last.pre, Opposite(last.side))) = {}
       \/ Better(last.side,
                 BestPrice(last.pre, Opposite(last.side)), last.price)

----------------------------------------------------------------------------
\* C1: no crossed book.  Whenever both sides hold resting orders, the highest
\* resting buy price is strictly less than the lowest resting sell price.
C1_NoCrossedBook ==
    (QueuePtrs(bids) # {} /\ QueuePtrs(asks) # {})
        => HighestBid(Engine) < LowestAsk(Engine)

\* C2: getBestBid() is the highest resting buy price and getBestAsk() the
\* lowest resting sell price, each 0 on an empty side.
C2_BestPrices ==
    /\ getBestBid(Engine) =
          (IF QueuePtrs(bids) = {} THEN 0 ELSE HighestBid(Engine))
    /\ getBestAsk(Engine) =
          (IF QueuePtrs(asks) = {} THEN 0 ELSE LowestAsk(Engine))

\* C3: price priority.  No trade of an addOrder is made against a resting
\* order while an opposite-side order at a strictly better price, resting
\* when the command began, is not yet completely filled.
C3_PricePriority ==
    last.op = "add" =>
        \A k \in NewTrades :
            \A p \in QueuePtrs(Side(last.pre, Opposite(last.side))) :
                Better(Opposite(last.side), last.pre.heap[p].price,
                       trade_history[k].price)
                    => FilledBefore(p, k)

\* C4: time priority.  Every queue holds its orders in arrival order, and a
\* trade of an addOrder is made against an order of a level only once every
\* order ahead of it in that level's queue is completely filled.
C4_TimePriority ==
    /\ \A side \in Sides : \A price \in DOMAIN Side(Engine, side) :
          LET q == Side(Engine, side)[price]
          IN \A i, j \in 1..Len(q) :
                i < j => heap[q[i]].order_id < heap[q[j]].order_id
    /\ last.op = "add" =>
          \A k \in NewTrades :
             LET opp == Side(last.pre, Opposite(last.side))
             IN \E price \in DOMAIN opp : \E j \in 1..Len(opp[price]) :
                   /\ last.pre.heap[opp[price][j]].order_id
                         = PassiveId(trade_history[k])
                   /\ \A i \in 1..(j - 1) : FilledBefore(opp[price][i], k)

\* Two orders of one level were filled in turn by one addOrder, the second
\* in part only.
C4_Witness ==
    /\ last.op = "add"
    /\ \E k \in NewTrades :
          /\ k + 1 \in NewTrades
          /\ trade_history[k].price = trade_history[k + 1].price
          /\ PassiveId(trade_history[k]) < PassiveId(trade_history[k + 1])
          /\ PassiveId(trade_history[k + 1]) \in AllRestingIds(Engine)

\* C5: every trade is priced at the price of the resting order it fills.
C5_ExecutionAtPassivePrice ==
    last.op = "add" =>
        \A k \in NewTrades :
            LET id == PassiveId(trade_history[k])
            IN /\ id \in DOMAIN last.pre.order_map
               /\ id \in RestingIds(last.pre, Opposite(last.side))
               /\ trade_history[k].price
                     = last.pre.heap[last.pre.order_map[id]].price

\* An incoming limit order traded at a price other than its own limit.
C5_Witness ==
    /\ last.op = "add"
    /\ last.type = "LIMIT"
    /\ \E k \in NewTrades : trade_history[k].price # last.price

\* C6: inclusive cross.  An incoming limit order (of a positive quantity)
\* priced exactly at the best price of a non-empty opposite side trades at
\* that price.
C6_InclusiveCross ==
    ( /\ last.op = "add"
      /\ last.type = "LIMIT"
      /\ last.quantity > 0
      /\ QueuePtrs(Side(last.pre, Opposite(last.side))) # {}
      /\ last.price = BestPrice(last.pre, Opposite(last.side)) )
        => \E k \in NewTrades : trade_history[k].price = last.price

\* C7: a limit order that does not cross makes no trade and rests with its
\* full quantity on its own side at its own price.
C7_NonCrossingRests ==
    LastDidNotCross =>
        /\ trade_history = last.pre.trade_history
        /\ RestingQty(Engine, last.side, last.price, last.id) = last.quantity
        /\ last.quantity > 0 =>
              /\ last.id \in RestingIds(Engine, last.side)
              /\ last.id \notin RestingIds(Engine, Opposite(last.side))
              /\ last.id \in DOMAIN order_map
              /\ asks = (IF last.side = "SELL"
                         THEN Put(Index(last.pre.asks, last.price), last.price,
                                  Append(Index(last.pre.asks, last.price)[last.price],
                                         order_map[last.id]))
                         ELSE last.pre.asks)
              /\ bids = (IF last.side = "BUY"
                         THEN Put(Index(last.pre.bids, last.price), last.price,
                                  Append(Index(last.pre.bids, last.price)[last.price],
                                         order_map[last.id]))
                         ELSE last.pre.bids)

\* A limit order one tick short of the opposite best price now rests.
C7_Witness ==
    /\ LastDidNotCross
    /\ last.quantity > 0
    /\ QueuePtrs(Side(last.pre, Opposite(last.side))) # {}
    /\ last.price \in {BestPrice(last.pre, Opposite(last.side)) - 1,
                       BestPrice(last.pre, Opposite(last.side)) + 1}
    /\ last.id \in RestingIds(Engine, last.side)

\* C8: a limit order left with remaining quantity after matching is the last
\* of the queue at its own price on its own side, is registered in the order
\* index, and rests with its initial quantity less the fills naming it.
C8_ResidualRests ==
    LET remaining == last.quantity
                       - TradedQty(trade_history,
                                   Len(last.pre.trade_history) + 1,
                                   Len(trade_history), last.id)
    IN (last.op = "add" /\ last.type = "LIMIT" /\ remaining > 0) =>
          /\ last.price \in DOMAIN Side(Engine, last.side)
          /\ LET q == Side(Engine, last.side)[last.price]
             IN /\ heap[q[Len(q)]].order_id = last.id
                /\ heap[q[Len(q)]].quantity = remaining
                /\ heap[q[Len(q)]].price = last.price
                /\ heap[q[Len(q)]].side = last.side
                /\ \A i \in 1..(Len(q) - 1) : heap[q[i]].order_id # last.id
                /\ last.id \in DOMAIN order_map
                /\ order_map[last.id] = q[Len(q)]
          /\ last.id \notin RestingIds(Engine, Opposite(last.side))
          /\ \A price \in DOMAIN Side(Engine, last.side) \ {last.price} :
                \A i \in 1..Len(Side(Engine, last.side)[price]) :
                   heap[Side(Engine, last.side)[price][i]].order_id # last.id

\* A limit order traded, emptied the opposite side it could reach and rests
\* with what was left.
C8_Witness ==
    /\ last.op = "add"
    /\ last.type = "LIMIT"
    /\ NewTrades # {}
    /\ last.id \in RestingIds(Engine, last.side)
    /\ RestingQty(Engine, last.side, last.price, last.id) > 0
    /\ RestingQty(Engine, last.side, last.price, last.id) < last.quantity

\* C9: a market order never rests.  After addOrder of a market order its id
\* is in neither side and not in the order index; it has traded its whole
\* quantity or the opposite side is exhausted; against an empty opposite side
\* it makes no trade and leaves the book as it was.
C9_MarketNeverRests ==
    (last.op = "add" /\ last.type = "MARKET") =>
        /\ last.id \notin AllRestingIds(Engine)
        /\ last.id \notin DOMAIN order_map
        /\ last.id \notin DOMAIN heap
        /\ \/ TradedQty(trade_history, Len(last.pre.trade_history) + 1,
                        Len(trade_history), last.id) = last.quantity
           \/ DOMAIN Side(Engine, Opposite(last.side)) = {}
        /\ \A k \in NewTrades : AggressorId(trade_history[k]) = last.id
        /\ DOMAIN Side(last.pre, Opposite(last.side)) = {} =>
              /\ trade_history = last.pre.trade_history
              /\ bids = last.pre.bids
              /\ asks = last.pre.asks
              /\ order_map = last.pre.order_map
              /\ heap = last.pre.heap

\* A market order traded in part, exhausted the opposite side, and what was
\* left of it is gone.
C9_Witness ==
    /\ last.op = "add"
    /\ last.type = "MARKET"
    /\ NewTrades # {}
    /\ TradedQty(trade_history, Len(last.pre.trade_history) + 1,
                 Len(trade_history), last.id) < last.quantity
    /\ last.id \notin AllRestingIds(Engine)

\* C10: cancelOrder(id) returns true exactly when id was resting; then the
\* order is gone from its queue and from the order index, a second cancel of
\* the id returns false, and the trade log is as it was.
C10_CancelResult ==
    last.op = "cancel" =>
        /\ last.ret = (last.id \in AllRestingIds(last.pre))
        /\ trade_history = last.pre.trade_history
        /\ last.ret =>
              /\ last.id \notin AllRestingIds(Engine)
              /\ last.id \notin DOMAIN order_map
              /\ cancelOrder(Engine, last.id).ret = FALSE

\* An order that had been filled in part was cancelled.
C10_Witness ==
    /\ last.op = "cancel"
    /\ last.ret
    /\ TradedQty(trade_history, 1, Len(trade_history), last.id) > 0


\* C11: cancelOrder of an id that is not resting changes nothing: both sides,
\* the order index, the trade log and the id counter are as they were, and
\* the same call made again returns false again and leaves the same state.
C11_CancelMissIsNoOp ==
    (last.op = "cancel" /\ last.id \notin AllRestingIds(last.pre)) =>
        /\ last.ret = FALSE
        /\ bids = last.pre.bids
        /\ asks = last.pre.asks
        /\ order_map = last.pre.order_map
        /\ heap = last.pre.heap
        /\ trade_history = last.pre.trade_history
        /\ next_order_id = last.pre.next_order_id
        /\ Engine = last.pre
        /\ cancelOrder(Engine, last.id) = [st |-> Engine, ret |-> FALSE]
        /\ cancelOrder(cancelOrder(Engine, last.id).st, last.id)
              = [st |-> Engine, ret |-> FALSE]

\* A cancel was refused for an order that has been filled,
\* while other orders rest.
C11_Witness ==
    /\ last.op = "cancel"
    /\ ~last.ret
    /\ last.id < next_order_id
    /\ TradedQty(trade_history, 1, Len(trade_history), last.id) > 0
    /\ AllRestingIds(Engine) # {}


\* C12: addOrder with quantity 0, limit or market, is rejected: no id is
\* assigned (the id counter does not advance), no trade is made, and the book
\* and the order index are as they were.
C12_ZeroQuantityRejected ==
    (last.op = "add" /\ last.quantity = 0) =>
        /\ next_order_id = last.pre.next_order_id
        /\ trade_history = last.pre.trade_history
        /\ bids = last.pre.bids
        /\ asks = last.pre.asks
        /\ order_map = last.pre.order_map

\* C13: addOrder of a limit order with price <= 0 is rejected: no id is
\* assigned, no trade is made, and the book and the order index are as they
\* were; a market order is accepted whatever its price argument, which has no
\* effect.  (Orders of a positive quantity; quantity 0 is C12's case.)
C13_InvalidPriceRejected ==
    (last.op = "add" /\ last.quantity > 0) =>
        /\ (last.type = "LIMIT" /\ last.price <= 0) =>
              /\ next_order_id = last.pre.next_order_id
              /\ trade_history = last.pre.trade_history
              /\ bids = last.pre.bids
              /\ asks = last.pre.asks
              /\ order_map = last.pre.order_map
        /\ last.type = "MARKET" =>
              /\ next_order_id = last.pre.next_order_id + 1
              /\ \A price \in Prices :
                    addOrder(last.pre, last.side, "MARKET", price, last.quantity)
                       = [st |-> Engine, ret |-> last.id]


\* The remaining quantity of order `id` in the queue q.
RECURSIVE QueueQty(_, _, _)
QueueQty(st, q, id) ==
    IF q = <<>> THEN 0
    ELSE (IF st.heap[Head(q)].order_id = id THEN st.heap[Head(q)].quantity ELSE 0)
         + QueueQty(st, Tail(q), id)

\* The remaining quantity of order `id` over the levels `keys` of a side.
RECURSIVE LevelsQty(_, _, _, _)
LevelsQty(st, m, keys, id) ==
    IF keys = {} THEN 0
    ELSE LET k == CHOOSE x \in keys : TRUE
         IN QueueQty(st, m[k], id) + LevelsQty(st, m, keys \ {k}, id)

\* The remaining quantity with which order `id` rests in the book.
RestingRemaining(st, id) ==
    LevelsQty(st, st.bids, DOMAIN st.bids, id)
        + LevelsQty(st, st.asks, DOMAIN st.asks, id)

\* Fills naming the order, plus what rests of it, plus what was cancelled.
Accounted(id) ==
    TradedQty(trade_history, 1, Len(trade_history), id)
        + RestingRemaining(Engine, id) + ledger[id].cancelled

\* C14 as stated: for every accepted order, limit or market, the fills naming
\* it, its resting remaining quantity and the remaining quantity it was
\* cancelled with add up to its initial quantity.
C14_ConservationAll ==
    \A id \in DOMAIN ledger : Accounted(id) = ledger[id].quantity

\* C14, amended: the sum is the initial quantity for every accepted limit
\* order; for a market order, which never rests and cannot be cancelled, the
\* fills naming it do not exceed its initial quantity.
C14_ConservationLimit ==
    \A id \in DOMAIN ledger :
        IF ledger[id].type = "LIMIT"
        THEN Accounted(id) = ledger[id].quantity
        ELSE /\ Accounted(id) <= ledger[id].quantity
             /\ RestingRemaining(Engine, id) = 0
             /\ ledger[id].cancelled = 0

\* A limit order was filled in part and cancelled with a remainder, another
\* was filled in part and rests, and a market order has traded.
C14_Witness ==
    /\ \E id \in DOMAIN ledger :
          /\ ledger[id].type = "LIMIT"
          /\ ledger[id].cancelled > 0
          /\ TradedQty(trade_history, 1, Len(trade_history), id) > 0
    /\ \E id \in DOMAIN ledger :
          /\ ledger[id].type = "MARKET"
          /\ TradedQty(trade_history, 1, Len(trade_history), id) > 0


\* The ids a state knows of: those of resting orders, of index entries and of
\* the trades in the log.
KnownIds(st) ==
    AllRestingIds(st) \cup DOMAIN st.order_map
        \cup {st.trade_history[k].buy_order_id : k \in 1..Len(st.trade_history)}
        \cup {st.trade_history[k].sell_order_id : k \in 1..Len(st.trade_history)}

\* C15: the ids addOrder returns are strictly increasing.  Each addOrder
\* returns the counter's value and advances it by one, cancelOrder leaves the
\* counter alone, and every id in the book, the index or the trade log is
\* below the counter: a returned id is above every id handed out before.
C15_IdsIncrease ==
    /\ \A id \in KnownIds(Engine) : id < next_order_id
    /\ last.op = "add" =>
          /\ last.id = last.pre.next_order_id
          /\ next_order_id = last.id + 1
          /\ \A id \in KnownIds(last.pre) : id < last.id
    /\ last.op = "cancel" => next_order_id = last.pre.next_order_id

\* An addOrder after earlier orders have traded and others rest: its id is
\* the third or later.
C15_Witness ==
    /\ last.op = "add"
    /\ last.id >= 3
    /\ last.pre.trade_history # <<>>
    /\ AllRestingIds(last.pre) # {}
    /\ NewTrades # {}


\* C16: level invariant.  Every price present in the bid map or the ask map
\* has a non-empty queue, and every order in that queue has that price, the
\* side of the map, type LIMIT and a remaining quantity above 0.
C16_LevelInvariant ==
    \A side \in Sides : \A price \in DOMAIN Side(Engine, side) :
        LET q == Side(Engine, side)[price]
        IN /\ q # <<>>
           /\ \A i \in 1..Len(q) :
                 /\ q[i] \in DOMAIN heap
                 /\ heap[q[i]].price = price
                 /\ heap[q[i]].side = side
                 /\ heap[q[i]].type = "LIMIT"
                 /\ heap[q[i]].quantity > 0

\* A command has just left a level of two orders whose head is filled in
\* part.
C16_Witness ==
    /\ last.op = "add"
    /\ NewTrades # {}
    /\ \E side \in Sides : \E price \in DOMAIN Side(Engine, side) :
          LET q == Side(Engine, side)[price]
          IN /\ Len(q) >= 2
             /\ TradedQty(trade_history, 1, Len(trade_history),
                          heap[q[1]].order_id) > 0


\* The places of the book where an order with this id is queued.
Places(st, id) ==
    {pl \in UNION {{<<side, price, i>> : i \in 1..Len(Side(st, side)[price])} :
                   <<side, price>> \in UNION {{<<s, k>> : k \in DOMAIN Side(st, s)} : s \in Sides}} :
        st.heap[Side(st, pl[1])[pl[2]][pl[3]]].order_id = id}

\* C17: order-index consistency.  Between commands the ids of order_map are
\* the ids of the orders queued on the two sides; each indexed order is
\* queued exactly once, in the level at its own side and price, and the entry
\* of a queued order is the pointer that is queued.
C17_IndexConsistency ==
    /\ DOMAIN order_map = AllRestingIds(Engine)
    /\ \A id \in DOMAIN order_map :
          /\ order_map[id] \in DOMAIN heap
          /\ heap[order_map[id]].order_id = id
          /\ Cardinality(Places(Engine, id)) = 1
          /\ \A pl \in Places(Engine, id) :
                /\ pl[1] = heap[order_map[id]].side
                /\ pl[2] = heap[order_map[id]].price
                /\ Side(Engine, pl[1])[pl[2]][pl[3]] = order_map[id]
    /\ \A id \in AllRestingIds(Engine) : Cardinality(Places(Engine, id)) = 1

\* A cancellation has just removed one of at least two indexed orders, a
\* trade has happened before, and an indexed order remains.
C17_Witness ==
    /\ last.op = "cancel"
    /\ last.ret
    /\ trade_history # <<>>
    /\ DOMAIN order_map # {}
    /\ Cardinality(DOMAIN last.pre.order_map) >= 2


\* C18: round trip.  After an addOrder of a limit order that does not cross,
\* a cancelOrder of the returned id leaves the bid map, the ask map (levels,
\* queue contents and queue order), the order map, the order objects and the
\* trade log as they were before the add; the id counter is one further.
C18_RoundTrip ==
    LastDidNotCross =>
        LET r == cancelOrder(Engine, last.id)
        IN /\ last.quantity > 0 => r.ret
           /\ r.st.bids = last.pre.bids
           /\ r.st.asks = last.pre.asks
           /\ r.st.order_map = last.pre.order_map
           /\ r.st.heap = last.pre.heap
           /\ r.st.trade_history = last.pre.trade_history
           /\ r.st.total_trades = last.pre.total_trades
           /\ r.st.next_order_id = last.pre.next_order_id + 1

\* A limit order has joined, behind an older order, a level that faces a
\* non-empty opposite side without crossing, and its cancellation succeeds.
C18_Witness ==
    /\ LastDidNotCross
    /\ last.quantity > 0
    /\ last.price \in DOMAIN Side(last.pre, last.side)
    /\ QueuePtrs(Side(last.pre, Opposite(last.side))) # {}
    /\ cancelOrder(Engine, last.id).ret


\* The depths asked of the book printer.
MaxDepth == 2
Depths == (0..MaxDepth) \cup {DefaultDepth}

\* The listing of one side as the book printer gives it.
Listing(st, side, k) ==
    IF side = "BUY" THEN printOrderBook(st, k).bids
    ELSE printOrderBook(st, k).asks

\* The sum of the remaining quantities of the orders queued at a level.
RECURSIVE LevelQty(_, _)
LevelQty(st, q) ==
    IF q = <<>> THEN 0 ELSE st.heap[Head(q)].quantity + LevelQty(st, Tail(q))

\* Every line of a listing names a level of the side, with the sum of the
\* remaining quantities of its orders and the length of its queue.
ListingTotals(side, k) ==
    LET L == Listing(Engine, side, k)
    IN \A i \in 1..Len(L) :
          /\ L[i].price \in DOMAIN Side(Engine, side)
          /\ L[i].quantity = LevelQty(Engine, Side(Engine, side)[L[i].price])
          /\ L[i].orders = Len(Side(Engine, side)[L[i].price])

\* A listing starts at the best price of the side, goes to strictly worse
\* prices without leaving a level out, and has at most k lines.
ListingOutward(side, k) ==
    LET L == Listing(Engine, side, k)
        levels == DOMAIN Side(Engine, side)
    IN /\ Len(L) <= k
       /\ Len(L) = Min(k, Cardinality(levels))
       /\ Len(L) > 0 => L[1].price = BestPrice(Engine, side)
       /\ \A i \in 1..(Len(L) - 1) : Better(side, L[i].price, L[i + 1].price)
       /\ \A i \in 1..Len(L) : \A p \in levels :
             Better(side, p, L[i].price) => \E j \in 1..(i - 1) : L[j].price = p

\* C19: depth inspection.  For each side and each depth k the listing of the
\* book printer starts at the side's best price (highest bid, lowest ask),
\* proceeds outward to worse prices, has at most k levels, and each line
\* carries the sum of the remaining quantities of the level's orders and the
\* length of its queue.
C19_DepthListing ==
    \A side \in Sides : \A k \in Depths :
        ListingOutward(side, k) /\ ListingTotals(side, k)

\* The parts of C19 that the code keeps: the ask listing is outward from the
\* lowest ask, and the totals and counts of both listings are right.
C19_AsksAndTotals ==
    /\ \A k \in Depths : ListingOutward("SELL", k)
    /\ \A side \in Sides : \A k \in Depths : ListingTotals(side, k)


\* C20: mid price and spread.  getMidPrice() and getSpread() return 0 when
\* the bid side or the ask side is empty; when both hold orders the spread is
\* the lowest ask minus the highest bid and the mid price is their average,
\* and the spread is above 0 when the book is not crossed.
C20_MidAndSpread ==
    IF QueuePtrs(bids) = {} \/ QueuePtrs(asks) = {}
    THEN /\ getSpread(Engine) = 0
         /\ getMidPrice(Engine).num = 0
    ELSE /\ getSpread(Engine) = LowestAsk(Engine) - HighestBid(Engine)
         /\ getMidPrice(Engine).num * 2
               = (HighestBid(Engine) + LowestAsk(Engine)) * getMidPrice(Engine).den
         /\ HighestBid(Engine) < LowestAsk(Engine) => getSpread(Engine) > 0

\* The part of C20 that the code keeps: the sentinel 0 when a side is empty,
\* and otherwise the difference and the average of what getBestAsk() and
\* getBestBid() return.
C20_SentinelAndArithmetic ==
    IF QueuePtrs(bids) = {} \/ QueuePtrs(asks) = {}
    THEN /\ getSpread(Engine) = 0
         /\ getMidPrice(Engine).num = 0
    ELSE /\ getSpread(Engine) = getBestAsk(Engine) - getBestBid(Engine)
         /\ getMidPrice(Engine).num * 2
               = (getBestBid(Engine) + getBestAsk(Engine)) * getMidPrice(Engine).den


\* C21: limit price bound.  Every trade made by an incoming limit buy has a
\* price at or below the order's limit price, and every trade made by an
\* incoming limit sell has a price at or above it, whatever the book and
\* however many levels are swept.
C21_LimitPriceBound ==
    (last.op = "add" /\ last.type = "LIMIT") =>
        \A k \in NewTrades :
            IF last.side = "BUY"
            THEN trade_history[k].price <= last.price
            ELSE trade_history[k].price >= last.price

\* A limit order has swept two levels, trading at two prices, one of them
\* strictly inside its limit.
C21_Witness ==
    /\ last.op = "add"
    /\ last.type = "LIMIT"
    /\ \E j, k \in NewTrades :
          /\ trade_history[j].price # trade_history[k].price
          /\ trade_history[k].price # last.price


\* The levels of a side whose queue is empty.
EmptyLevels(m) == {p \in DOMAIN m : m[p] = <<>>}

\* The fill step just taken is a fill of the incoming order against the head
\* of the level p of the opposite side.
FillAgainst(p) ==
    LET o == heap[incoming]
        opp == Side(Engine, Opposite(o.side))
        oppAfter == IF o.side = "BUY" THEN asks' ELSE bids'
        own == Side(Engine, o.side)
        ownAfter == IF o.side = "BUY" THEN bids' ELSE asks'
        h == Head(opp[p])
        fill == Min(o.quantity, heap[h].quantity)
        t == trade_history'[Len(trade_history')]
    IN /\ fill > 0
       /\ trade_history' = Append(trade_history, t)
       /\ t.quantity = fill
       /\ t.buy_order_id = (IF o.side = "BUY" THEN o.order_id ELSE heap[h].order_id)
       /\ t.sell_order_id = (IF o.side = "BUY" THEN heap[h].order_id ELSE o.order_id)
       /\ heap'[incoming].quantity = o.quantity - fill
       /\ heap'[h].quantity = heap[h].quantity - fill
       /\ ownAfter = own
       /\ IF heap[h].quantity - fill = 0
          THEN /\ oppAfter = [opp EXCEPT ![p] = Tail(opp[p])]
               /\ heap[h].order_id \in DOMAIN order_map
               /\ order_map' = Erase(order_map, heap[h].order_id)
          ELSE /\ oppAfter = opp
               /\ order_map' = order_map

\* C22: the fill step.  Each fill step emits one trade whose quantity is the
\* minimum of the incoming order's and the head order's remaining quantity,
\* which is above 0, and takes that amount off both; the head leaves its
\* queue and the index exactly when nothing is left of it; a level is erased
\* exactly when its queue is empty, which is at the step that follows the
\* fill that emptied it.
C22_FillStep ==
    [][/\ FillStep =>
             \E p \in DOMAIN Side(Engine, Opposite(heap[incoming].side)) :
                 /\ Side(Engine, Opposite(heap[incoming].side))[p] # <<>>
                 /\ FillAgainst(p)
       /\ LevelStep =>
             /\ bids' = [p \in (DOMAIN bids) \ EmptyLevels(bids) |-> bids[p]]
             /\ asks' = [p \in (DOMAIN asks) \ EmptyLevels(asks) |-> asks[p]]
       /\ (EmptyLevels(bids') \cup EmptyLevels(asks') # {}) =>
             /\ pc' = "inner"
             /\ ~innerEnters(Engine, incoming)']_vars

\* The incoming order has made two fills; the second took the last order of
\* its level, whose queue is now empty and about to be erased.
C22_Witness ==
    /\ pc = "inner"
    /\ Len(trade_history) >= Len(last.pre.trade_history) + 2
    /\ EmptyLevels(bids) \cup EmptyLevels(asks) # {}


\* The side an order object of state st with this id was submitted with
\* ("NONE" when st holds no such order).
SubmittedSide(st, id) ==
    LET ps == {p \in DOMAIN st.heap : st.heap[p].order_id = id}
    IN IF ps = {} THEN "NONE" ELSE st.heap[CHOOSE p \in ps : TRUE].side

\* C23: trade sides and no self-cross.  Every trade is emitted by an
\* addOrder; its buy_order_id is the id of an order submitted with side BUY
\* and its sell_order_id the id of one submitted with side SELL; the two ids
\* differ; one of them is the incoming order of that addOrder and the other
\* an order that was resting, on the opposite side, before the command.
C23_TradeSides ==
    /\ last.op = "cancel" => NewTrades = {}
    /\ last.op = "add" =>
          \A k \in NewTrades :
              LET t == trade_history[k]
              IN /\ t.buy_order_id # t.sell_order_id
                 /\ AggressorId(t) = last.id
                 /\ last.id \notin AllRestingIds(last.pre)
                 /\ PassiveId(t) \in RestingIds(last.pre, Opposite(last.side))
                 /\ SubmittedSide(last.pre, PassiveId(t)) = Opposite(last.side)
                 /\ IF last.side = "BUY"
                    THEN t.buy_order_id = last.id
                    ELSE t.sell_order_id = last.id

\* An incoming sell has traded with a resting buy, after earlier trades.
C23_Witness ==
    /\ last.op = "add"
    /\ last.side = "SELL"
    /\ NewTrades # {}
    /\ last.pre.trade_history # <<>>


\* What a running addOrder still has to get through: the remaining quantity
\* of the incoming order, and the orders and levels of the opposite side.
Work ==
    LET opp == Side(Engine, Opposite(heap[incoming].side))
    IN heap[incoming].quantity + Cardinality(QueuePtrs(opp))
       + Cardinality(DOMAIN opp)

\* The variant of a running addOrder: what is left to get through, and
\* within that the place reached (an outer test that will enter the inner
\* loop, the inner loop, an outer test that will leave).
Rank ==
    3 * Work + (IF pc = "inner" THEN 1
                ELSE IF outerEnters(Engine, incoming) THEN 2 ELSE 0)

\* While addOrder runs, its Order object exists, the variant is not below 0,
\* and in the inner loop the level that `orders` refers to is there.
Running ==
    pc # "idle" =>
        /\ incoming \in DOMAIN heap
        /\ Rank >= 0
        /\ pc = "inner" =>
              DOMAIN Side(Engine, Opposite(heap[incoming].side)) # {}

\* C24: every command runs to completion.  Every step of a running addOrder
\* but the return strictly decreases a variant that is never below 0, and
\* the step that ends the outer loop returns: every fill strictly decreases
\* the incoming order's remaining quantity, every outer iteration that is
\* entered makes at least one fill, and leaving the inner loop either erases
\* a level or ends the outer loop.  This holds whatever the book and the
\* quantity submitted (0 included).  (cancelOrder has no loop of its own.)
C24_RunsToCompletion ==
    [][/\ Running /\ Running'
       /\ (OuterStep \/ FillStep \/ LevelStep) => Rank' < Rank
       /\ FillStep => heap'[incoming].quantity < heap[incoming].quantity
       /\ OuterStep => innerEnters(Engine, incoming)'
       /\ FinishStep => pc' = "idle"]_vars

\* The same as a liveness property, under weak fairness of the steps of the
\* running addOrder: a running addOrder returns.
RunsToCompletion == (pc # "idle") ~> (pc = "idle")

\* A running addOrder is back at the test of the outer loop after it has
\* traded and emptied a level, with quantity left and more levels to sweep.
C24_Witness ==
    /\ pc = "outer"
    /\ heap[incoming].quantity > 0
    /\ Len(trade_history) > Len(last.pre.trade_history)
    /\ DOMAIN Side(Engine, Opposite(heap[incoming].side)) # {}


\* The queue of a level of a map, empty when the map has no such level.
QueueAt(m, p) == IF p \in DOMAIN m THEN m[p] ELSE <<>>

\* Queue `after` is what is left of queue `before` (of the state last.pre)
\* when orders have been consumed from its head: a tail end of it, whose
\* orders keep their remaining quantity, but for the first, which may have
\* lost some and has some left.
ConsumedFromHead(before, after) ==
    /\ Len(after) <= Len(before)
    /\ after = SubSeq(before, Len(before) - Len(after) + 1, Len(before))
    /\ \A i \in 1..Len(after) :
          /\ after[i] \in DOMAIN heap
          /\ heap[after[i]].quantity > 0
          /\ heap[after[i]].quantity <= last.pre.heap[after[i]].quantity
          /\ i > 1 => heap[after[i]] = last.pre.heap[after[i]]

\* The orders of these queues are, in the heap, what they were before the
\* last command.
Untouched(q) == \A i \in 1..Len(q) : heap[q[i]] = last.pre.heap[q[i]]

\* C25: same-side frame.  An addOrder never removes, reorders or changes an
\* order resting on its own side: the only change there is the incoming
\* order appended at the tail of the level at its price; on the opposite side
\* it only consumes orders from the head of the queues.  A cancelOrder of a
\* resting order leaves every other resting order as it was, and the other
\* orders of its level in their order.
C25_SameSideFrame ==
    /\ last.op = "add" =>
          LET own == Side(Engine, last.side)
              ownPre == Side(last.pre, last.side)
              opp == Side(Engine, Opposite(last.side))
              oppPre == Side(last.pre, Opposite(last.side))
          IN /\ \A p \in DOMAIN ownPre :
                   /\ p \in DOMAIN own
                   /\ Untouched(ownPre[p])
                   /\ \/ own[p] = ownPre[p]
                      \/ /\ p = last.price
                         /\ own[p] = Append(ownPre[p], order_map[last.id])
             /\ \A p \in (DOMAIN own) \ (DOMAIN ownPre) :
                   /\ p = last.price
                   /\ own[p] = <<order_map[last.id]>>
             /\ DOMAIN opp \subseteq DOMAIN oppPre
             /\ \A p \in DOMAIN oppPre :
                   ConsumedFromHead(oppPre[p], QueueAt(opp, p))
    /\ (last.op = "cancel" /\ last.ret) =>
          LET o == last.pre.order_map[last.id]
              s == last.pre.heap[o].side
              price == last.pre.heap[o].price
              pre == Side(last.pre, s)[price]
              post == QueueAt(Side(Engine, s), price)
          IN /\ Side(Engine, Opposite(s)) = Side(last.pre, Opposite(s))
             /\ \A p \in (DOMAIN Side(last.pre, s)) \ {price} :
                   QueueAt(Side(Engine, s), p) = Side(last.pre, s)[p]
             /\ DOMAIN Side(Engine, s) \subseteq DOMAIN Side(last.pre, s)
             /\ \E i \in 1..Len(pre) :
                   /\ pre[i] = o
                   /\ post = SubSeq(pre, 1, i - 1) \o SubSeq(pre, i + 1, Len(pre))
             /\ \A p \in DOMAIN bids : Untouched(bids[p])
             /\ \A p \in DOMAIN asks : Untouched(asks[p])

\* An incoming buy has traded and left a part of the ask side in the book,
\* while bids were resting.
C25_Witness ==
    /\ last.op = "add"
    /\ last.side = "BUY"
    /\ NewTrades # {}
    /\ last.pre.bids # <<>>
    /\ asks # <<>>

====
